---- MODULE Spec2Model ----
(***************************************************************************)
(* Model of the action executor of agent/driver.py:                        *)
(*   - execute_actions: the dispatcher loop over a batch of actions;       *)
(*   - safe_modify_engine_backtest: the backup / verify / revert protocol  *)
(*     guarding engine/backtest.py;                                        *)
(*   - run_command: the subprocess facility;                               *)
(*   - is_under_strategies: the containment test on paths;                 *)
(*   - main: the conversation loop around call_agent and execute_actions.  *)
(*                                                                         *)
(* Values.  A JSON / Python value read with dict.get is a tagged record    *)
(* [k, v]: k = "absent" (key missing), "null" (None), "str" (a string) or  *)
(* "Path" (a pathlib.Path, which only a direct caller of the guard can     *)
(* pass).  A path string is the sequence of its "/"-separated components   *)
(* (the empty string is <<>>); a command string is a sequence of chunks    *)
(* of characters, the chunk " " being whitespace.                          *)
(*                                                                         *)
(* File system.  files maps canonical paths (relative to ROOT_DIR, which   *)
(* is taken to be the working directory) to contents, dirs is the set of   *)
(* existing directories.  There are no symbolic links.  Subprocesses are   *)
(* taken not to touch the modelled files; their exit code is chosen by     *)
(* the environment.                                                        *)
(***************************************************************************)
EXTENDS Integers, Sequences, FiniteSets, TLC

\* ------------------------------------------------------------------ bounds

\* Longest batch handed to execute_actions.
MaxBatch == 2

\* Last UTC second of the clock (seconds are 1..MaxTime).
MaxTime == 2

\* Iterations of the conversation loop.  The source has MAX_STEPS = 30; the
\* loop is explored with this smaller number of iterations.
MAX_STEPS == 3

\* Longest batch the model's answer holds in the conversation loop.
MainBatch == 2

\* Most components of a path given to is_under_strategies.
MaxPath == 3

\* ------------------------------------------------------------------ values

Absent == [k |-> "absent", v |-> <<>>]
Null == [k |-> "null", v |-> <<>>]
Str(s) == [k |-> "str", v |-> s]
PathOf(s) == [k |-> "Path", v |-> s]

\* Python truthiness of a value read with dict.get: None and "" are falsy.
Truthy(x) == x.k \in {"str", "Path"} /\ x.v # <<>>

\* dict.get(key, default): the default replaces a missing key only, a null
\* stays None.
GetOr(x, default) == IF x.k = "absent" THEN default ELSE x

\* dict.get(key): a missing key reads as None.
Get(x) == GetOr(x, Null)

\* File contents (strings, as chunk sequences).
InitContent == <<"orig">>
V1 == <<"v1">>
V2 == <<"v2">>

\* ------------------------------------------------------------------ paths

ENGINE == <<"engine", "backtest.py">>
README == <<"README.md">>
STRATEGY == <<"strategies", "example_ma_crossover.py">>
NEWFILE == <<"docs", "new", "n.txt">>
MISSING == <<"missing.txt">>
NODIR == <<"nodir">>

\* backtest_backup_<ts>.py, the name encoding the UTC second ts.
BackupName(ts) == "backtest_backup_" \o ToString(ts) \o ".py"
BackupPath(ts) == <<"engine", BackupName(ts)>>

\* os.path.dirname of a path string: everything before the last "/".
Dirname(p) == IF Len(p) = 0 THEN <<>> ELSE SubSeq(p, 1, Len(p) - 1)

\* Path.resolve() / the kernel's path walk, without symbolic links: "." is
\* dropped and ".." removes the component before it.
RECURSIVE Canon(_)
Canon(p) ==
    IF Len(p) = 0 THEN <<>>
    ELSE LET head == Canon(SubSeq(p, 1, Len(p) - 1))
             last == p[Len(p)]
         IN  IF last = "." THEN head
             ELSE IF last = ".." THEN Dirname(head)
             ELSE Append(head, last)

\* All proper ancestors of a canonical path, the root <<>> included.
Ancestors(p) == {SubSeq(p, 1, n) : n \in 0..(Len(p) - 1)}

\* Every entry name the model can hold, in str order (code points), so that
\* selecting from it is sorted().
NameOrder ==
    <<"README.md", "backtest.py">>
    \o [ts \in 1..MaxTime |-> BackupName(ts)]
    \o <<"docs", "engine", "example_ma_crossover.py", "logs", "n.txt", "new", "strategies">>

\* sorted(S) for a set of entry names.
Sorted(S) == SelectSeq(NameOrder, LAMBDA n : n \in S)

\* ------------------------------------------------------------- file system

\* os.listdir(d) as a set: the names directly under directory d.
Children(fs, ds, d) ==
    {p[Len(p)] : p \in {q \in (DOMAIN fs) \cup ds : Len(q) = Len(d) + 1 /\ SubSeq(q, 1, Len(d)) = d}}

\* files with path p (over)written with content c.
WriteTo(fs, p, c) == [q \in (DOMAIN fs) \cup {p} |-> IF q = p THEN c ELSE fs[q]]

\* os.makedirs(d, exist_ok=True) for a path string d: the exception it raises
\* ("" when none).  makedirs("") raises FileNotFoundError; a component that is
\* a file raises FileExistsError.
MakedirsExc(fs, d) ==
    IF d = <<>> THEN "FileNotFoundError"
    ELSE IF \E a \in Ancestors(Canon(d)) \cup {Canon(d)} : a \in DOMAIN fs THEN "FileExistsError"
    ELSE ""

\* The directories after os.makedirs(d, exist_ok=True) succeeded.
MakedirsDirs(ds, d) == ds \cup Ancestors(Canon(d)) \cup {Canon(d)}

\* open(p, "w"): the exception it raises ("" when none).
OpenWriteExc(fs, ds, p) ==
    IF p = <<>> THEN "FileNotFoundError"
    ELSE IF Canon(p) \in ds THEN "IsADirectoryError"
    ELSE IF Dirname(Canon(p)) \notin ds THEN "FileNotFoundError"
    ELSE ""

\* open(p, "r"): the exception it raises ("" when none).
OpenReadExc(fs, ds, p) ==
    IF p = <<>> THEN "FileNotFoundError"
    ELSE IF Canon(p) \in ds THEN "IsADirectoryError"
    ELSE IF Canon(p) \notin DOMAIN fs THEN "FileNotFoundError"
    ELSE ""

\* os.listdir(p): the exception it raises ("" when none).
ListdirExc(fs, ds, p) ==
    IF p = <<>> THEN "FileNotFoundError"
    ELSE IF Canon(p) \in DOMAIN fs THEN "NotADirectoryError"
    ELSE IF Canon(p) \notin ds THEN "FileNotFoundError"
    ELSE ""

\* --------------------------------------------------------------- commands

WS == " "

\* str.strip(): leading and trailing whitespace removed.
RECURSIVE Strip(_)
Strip(c) ==
    IF Len(c) = 0 THEN c
    ELSE IF c[1] = WS THEN Strip(Tail(c))
    ELSE IF c[Len(c)] = WS THEN Strip(SubSeq(c, 1, Len(c) - 1))
    ELSE c

\* str.startswith(p).
StartsWith(c, p) == Len(c) >= Len(p) /\ SubSeq(c, 1, Len(p)) = p

\* The whitelist of execute_actions.
allowed_prefixes ==
    << <<"python engine/fetch_data.py">>,
       <<"python engine/backtest.py">>,
       <<"python engine/analyze_runs.py">>,
       <<"python engine/plot_strategy.py">>,
       <<"python engine/optimize_params.py">>,
       <<"pip install -r requirements.txt">> >>

\* The commands the module docstring and the initial user message say
\* run_command may be used for.
documented_prefixes ==
    << <<"python engine/fetch_data.py">>,
       <<"python engine/backtest.py">>,
       <<"python engine/plot_strategy.py">>,
       <<"python engine/analyze_runs.py">>,
       <<"pip install -r requirements.txt">> >>

\* The files the module docstring says write_file may write ("Pode escrever
\* SOMENTE em"), the .py files under strategies/ apart.
write_targets ==
    { <<"ARCHITECTURE.md">>,
      <<"README.md">>,
      <<"requirements.txt">>,
      <<"engine", "plot_strategy.py">>,
      <<"engine", "analyze_runs.py">>,
      <<"logs", "user_actions.md">> }

\* A faulty whitelist test: every command passes.
Allowed_Any(c) == TRUE

\* any(command.startswith(p) for p in allowed_prefixes)
Allowed(c) == \E i \in 1..Len(allowed_prefixes) : StartsWith(c, allowed_prefixes[i])

\* The parameters run_command declares, and the arguments its two callers
\* pass: the guard passes the command alone, the dispatcher adds cwd=.
RunCommandParams == {"command"}
GuardCallArgs == {"command"}
DispatchCallArgs == {"command", "cwd"}

\* Binding a call's arguments to run_command's parameters: the exception it
\* raises ("" when none).
BindExc(args) == IF args \subseteq RunCommandParams THEN "" ELSE "TypeError"

\* Exit codes: zero, or nonzero (represented by 1).
ExitCodes == {0, 1}

\* The dict run_command returns.
CmdResult(rc) == [stdout |-> <<>>, stderr |-> <<>>, returncode |-> rc]

\* ---------------------------------------------------------------- actions

T_LIST == <<"list_dir">>
T_READ == <<"read_file">>
T_WRITE == <<"write_file">>
T_MODIFY == <<"modify_engine">>
T_RUN == <<"run_command">>

Act(t, p, c, cmd) == [type |-> t, path |-> p, content |-> c, command |-> cmd]

\* The actions batches are drawn from: every variant, succeeding and failing.
ActionSet ==
    { Act(Str(T_LIST), Absent, Absent, Absent),
      Act(Str(T_LIST), Str(NODIR), Absent, Absent),
      Act(Str(T_READ), Str(MISSING), Absent, Absent),
      Act(Str(T_READ), Str(ENGINE), Absent, Absent),
      Act(Str(T_READ), Str(README), Absent, Absent),
      Act(Str(T_READ), Absent, Absent, Absent),
      Act(Str(T_WRITE), Str(ENGINE), Str(V1), Absent),
      Act(Str(T_WRITE), Str(README), Str(V1), Absent),
      Act(Str(T_WRITE), Str(NEWFILE), Str(V1), Absent),
      Act(Str(T_WRITE), Absent, Str(V1), Absent),
      Act(Str(T_MODIFY), Str(ENGINE), Str(V2), Absent),
      Act(Str(T_MODIFY), Str(README), Str(V2), Absent),
      Act(Str(T_MODIFY), Absent, Str(V2), Absent),
      Act(Str(T_RUN), Absent, Absent, Str(<<WS, "python engine/backtest.py", " strategies/example_ma_crossover.py">>)),
      Act(Str(T_RUN), Absent, Absent, Str(<<"python engine/optimize_params.py", " x">>)),
      Act(Str(T_RUN), Absent, Absent, Str(<<"rm -rf /">>)),
      Act(Str(T_RUN), Absent, Absent, Str(<<WS>>)),
      Act(Str(T_RUN), Absent, Absent, Null),
      Act(Str(T_RUN), Absent, Absent, Absent),
      Act(Str(<<"delete_file">>), Str(README), Absent, Absent),
      Act(Absent, Absent, Absent, Absent) }

\* ------------------------------------------------------------------ state

VARIABLES
    files,        \* canonical path -> content
    dirs,         \* existing directories
    now,          \* the UTC clock, in seconds
    allowModify,  \* ALLOW_MODIFY_ENGINE
    allowRun,     \* ALLOW_RUN_COMMANDS
    ctl,          \* "idle", "exec" (in execute_actions) or "guard"
    call,         \* the last call made: "none", "execute_actions" or "guard"
    blen,         \* execute_actions: len(actions), the length of the batch
    actions,      \* execute_actions: the actions of the batch the loop has reached
    idx,          \* execute_actions: index of the action the loop is at
    results,      \* execute_actions: the results list
    outcome,      \* how the last call ended: "none", "returned", "raised"
    exc,          \* the exception a raised call ended with
    caller,       \* guard: "direct" or "exec"
    gPath,        \* guard: path argument
    gNew,         \* guard: new_content argument
    gStage,       \* guard: position in the body
    gOrig,        \* guard: original_content
    gBackup,      \* guard: second named by backup_file (0: not yet set)
    gCompile,     \* guard: compile_result, as a sequence of at most one dict
    gSmoke,       \* guard: smoke_result, likewise
    gRes,         \* guard: the dict returned, likewise
    log,          \* side effects of the call in progress, in order
    preFiles,     \* files when the call in progress began
    preDirs,      \* dirs when the call in progress began
    verified,     \* contents written by an attempt whose two checks exited 0
    cwd,          \* is_under_strategies: the working directory, absolute
    upath,        \* is_under_strategies: the path argument, relative to cwd
    native,       \* is_under_strategies: the runtime's Path has is_relative_to
    uret,         \* is_under_strategies: the value returned, <<>> before the call
    pc,           \* main: position ("off" when main is not running)
    answer,       \* main: len(actions) of the model's last answer (-1: none yet)
    step,         \* main: the loop variable
    messages,     \* main: the history sent to the model
    user_content, \* main: the content of the next user message
    stepLogs      \* main: the files logs/agent_step_<n>.json, path -> content

fsVars == <<files, dirs>>
cfgVars == <<allowModify, allowRun>>
execVars == <<blen, actions, idx, results>>
guardVars == <<caller, gPath, gNew, gStage, gOrig, gBackup, gCompile, gSmoke, gRes>>
histVars == <<log, preFiles, preDirs, verified>>
vars == <<files, dirs, now, allowModify, allowRun, ctl, call, blen, actions, idx, results, outcome, exc,
          caller, gPath, gNew, gStage, gOrig, gBackup, gCompile, gSmoke, gRes,
          log, preFiles, preDirs, verified,
          cwd, upath, native, uret,
          pc, answer, step, messages, user_content, stepLogs>>
pathVars == <<cwd, upath, native, uret>>
mainVars == <<pc, answer, step, messages, user_content, stepLogs>>

\* The project tree before the driver runs; engine/backtest.py may be missing.
InitDirs == {<<>>, <<"engine">>, <<"strategies">>}
InitFiles(withEngine) ==
    [p \in {README, STRATEGY} \cup (IF withEngine THEN {ENGINE} ELSE {}) |-> InitContent]

InitExec ==
    /\ \E withEngine \in BOOLEAN : files = InitFiles(withEngine)
    /\ dirs = InitDirs
    /\ now = 1
    /\ allowModify \in BOOLEAN
    /\ allowRun \in BOOLEAN
    /\ ctl = "idle"
    /\ call = "none"
    /\ blen = 0
    /\ actions = <<>>
    /\ idx = 1
    /\ results = <<>>
    /\ outcome = "none"
    /\ exc = ""
    /\ caller = "direct"
    /\ gPath = Null
    /\ gNew = <<>>
    /\ gStage = "none"
    /\ gOrig = <<>>
    /\ gBackup = 0
    /\ gCompile = <<>>
    /\ gSmoke = <<>>
    /\ gRes = <<>>
    /\ log = <<>>
    /\ preFiles = files
    /\ preDirs = dirs
    /\ verified = {}

\* The absolute path of the project directory.
ROOT_DIR == <<"repo">>

\* The system prompt and the first user message, as contents of messages.
prompt_sistema == [text |-> "prompt_sistema", fed |-> <<>>]
initial_user_message == [text |-> "INICIO", fed |-> <<>>]

\* is_under_strategies has not been called.
InitPathIdle ==
    /\ cwd = ROOT_DIR
    /\ upath = <<>>
    /\ native = TRUE
    /\ uret = <<>>

\* main is not running.
InitMainIdle ==
    /\ pc = "off"
    /\ answer = -1
    /\ step = 1
    /\ messages = <<>>
    /\ user_content = initial_user_message
    /\ stepLogs = <<>>

Init == InitExec /\ InitPathIdle /\ InitMainIdle

\* -------------------------------------------------------- execute_actions

\* a_type == t
TypeIs(a, t) == Get(a.type) = Str(t)

\* for action in actions: the loop reaches the next action, a.  The batch is
\* an input the loop reads one action at a time, so the model draws each
\* action when the loop reaches it.
Take(a) ==
    /\ ctl = "exec"
    /\ idx <= blen
    /\ actions' = Append(actions, a)
    /\ UNCHANGED blen

\* results.append(r); continue
Continue(r) ==
    /\ results' = Append(results, r)
    /\ idx' = idx + 1
    /\ UNCHANGED <<ctl, outcome, exc>>

\* An exception no handler of execute_actions catches: the call ends.
Escape(e) ==
    /\ ctl' = "idle"
    /\ outcome' = "raised"
    /\ exc' = e
    /\ UNCHANGED <<idx, results>>

\* execute_actions is called with a batch of n actions.
StartBatch(n) ==
    /\ ctl = "idle"
    /\ ctl' = "exec"
    /\ call' = "execute_actions"
    /\ blen' = n
    /\ actions' = <<>>
    /\ idx' = 1
    /\ results' = <<>>
    /\ outcome' = "none"
    /\ exc' = ""
    /\ log' = <<>>
    /\ preFiles' = files
    /\ preDirs' = dirs
    /\ UNCHANGED <<fsVars, now, cfgVars, guardVars, verified>>

DoListDir(a) ==
    /\ Take(a)
    /\ TypeIs(a, T_LIST)
    /\ LET path == GetOr(a.path, Str(<<".">>))
           \* os.listdir(None) lists the working directory
           p == IF path.k = "null" THEN <<".">> ELSE path.v
           e == ListdirExc(files, dirs, p)
       IN  IF e = ""
           THEN Continue([type |-> T_LIST, path |-> path,
                          items |-> Sorted(Children(files, dirs, Canon(p)))])
           ELSE Continue([type |-> T_LIST, path |-> path, error |-> e])
    /\ UNCHANGED <<fsVars, now, cfgVars, call, guardVars, histVars>>

DoReadFile(a) ==
    /\ Take(a)
    /\ TypeIs(a, T_READ)
    /\ LET path == Get(a.path)
           e == OpenReadExc(files, dirs, path.v)
       IN  IF ~Truthy(path)
           THEN Continue([type |-> T_READ, error |-> "missing path"])
           ELSE IF e = ""
           THEN Continue([type |-> T_READ, path |-> path, content |-> files[Canon(path.v)]])
           ELSE Continue([type |-> T_READ, path |-> path, error |-> e])
    /\ UNCHANGED <<fsVars, now, cfgVars, call, guardVars, histVars>>

DoWriteFile(a) ==
    /\ Take(a)
    /\ TypeIs(a, T_WRITE)
    /\ LET path == Get(a.path)
           content == GetOr(a.content, Str(<<>>))
           mexc == MakedirsExc(files, Dirname(path.v))
           dirs1 == MakedirsDirs(dirs, Dirname(path.v))
           oexc == OpenWriteExc(files, dirs1, path.v)
       IN  IF ~Truthy(path)
           THEN /\ Continue([type |-> T_WRITE, error |-> "missing path"])
                /\ UNCHANGED fsVars
           ELSE IF mexc # ""
           THEN /\ Continue([type |-> T_WRITE, path |-> path, error |-> mexc])
                /\ UNCHANGED fsVars
           ELSE IF oexc # ""
           THEN /\ Continue([type |-> T_WRITE, path |-> path, error |-> oexc])
                /\ dirs' = dirs1
                /\ UNCHANGED files
           ELSE IF content.k # "str"
           THEN \* open(path, "w") truncated the file, f.write(None) raises
                /\ Continue([type |-> T_WRITE, path |-> path, error |-> "TypeError"])
                /\ dirs' = dirs1
                /\ files' = WriteTo(files, Canon(path.v), <<>>)
           ELSE /\ Continue([type |-> T_WRITE, path |-> path, status |-> "ok"])
                /\ dirs' = dirs1
                /\ files' = WriteTo(files, Canon(path.v), content.v)
    /\ UNCHANGED <<now, cfgVars, call, guardVars, histVars>>

\* path.resolve() on the guard's first line: only a Path has the method.
ResolveExc(path) == IF path.k = "Path" THEN "" ELSE "AttributeError"

\* ok, msg = <the guard's dict>: unpacking iterates the dict's keys.
UnpackExc(d) == IF Cardinality(DOMAIN d) = 2 THEN "" ELSE "ValueError"

\* The except branch of modify_engine.
ModifyError(path, e) == [type |-> T_MODIFY, path |-> path, status |-> "error", message |-> e]

\* Faulty variants of the two capability tests: the flag is ignored.
ModifyDisabled_Never(flag) == FALSE
RunDisabled_Never(flag) == FALSE

\* if not ALLOW_MODIFY_ENGINE
ModifyDisabled(flag) == ~flag

\* if not ALLOW_RUN_COMMANDS
RunDisabled(flag) == ~flag

\* The dict appended when the capability is disabled.
ModifyBlocked == [type |-> T_MODIFY, status |-> "blocked", reason |-> "ALLOW_MODIFY_ENGINE=False no driver.py"]

DoModifyEngine(a) ==
    /\ Take(a)
    /\ TypeIs(a, T_MODIFY)
    /\ LET path == Get(a.path)
           content == GetOr(a.content, Str(<<>>))
       IN  IF ModifyDisabled(allowModify)
           THEN /\ Continue(ModifyBlocked)
                /\ UNCHANGED guardVars
           ELSE IF ResolveExc(path) # ""
           THEN \* safe_modify_engine_backtest raises on its first line
                /\ Continue(ModifyError(path, ResolveExc(path)))
                /\ UNCHANGED guardVars
           ELSE \* the guard runs on behalf of the dispatcher
                /\ ctl' = "guard"
                /\ caller' = "exec"
                /\ gPath' = path
                /\ gNew' = content.v
                /\ gStage' = "validate"
                /\ gOrig' = <<>>
                /\ gBackup' = 0
                /\ gCompile' = <<>>
                /\ gSmoke' = <<>>
                /\ gRes' = <<>>
                /\ UNCHANGED <<idx, results, outcome, exc>>
    /\ UNCHANGED <<fsVars, now, cfgVars, call, histVars>>

DoRunCommand(a) ==
    /\ Take(a)
    /\ TypeIs(a, T_RUN)
    /\ LET raw == GetOr(a.command, Str(<<>>))
           command == Strip(raw.v)
       IN  IF raw.k # "str"
           THEN \* None.strip()
                /\ Escape("AttributeError")
                /\ UNCHANGED log
           ELSE IF command = <<>>
           THEN /\ Continue([type |-> T_RUN, status |-> "error", error |-> "empty command"])
                /\ UNCHANGED log
           ELSE IF RunDisabled(allowRun)
           THEN /\ Continue([type |-> T_RUN, command |-> command, status |-> "blocked",
                             error |-> "ALLOW_RUN_COMMANDS=False"])
                /\ UNCHANGED log
           ELSE IF ~Allowed(command)
           THEN /\ Continue([type |-> T_RUN, command |-> command, status |-> "blocked",
                             error |-> "Comando bloqueado"])
                /\ UNCHANGED log
           ELSE IF BindExc(DispatchCallArgs) # ""
           THEN \* run_command(command, cwd=...) does not bind
                /\ Escape(BindExc(DispatchCallArgs))
                /\ UNCHANGED log
           ELSE /\ log' = Append(log, "spawn_command")
                /\ \/ Escape("OSError")
                   \/ \E rc \in ExitCodes :
                        Continue([type |-> T_RUN, command |-> command,
                                  status |-> IF rc = 0 THEN "ok" ELSE "error",
                                  returncode |-> rc, stdout |-> <<>>, stderr |-> <<>>])
    /\ UNCHANGED <<fsVars, now, cfgVars, call, guardVars, preFiles, preDirs, verified>>

\* A faulty variant of the unknown-type dict: the payload is not echoed.
UnknownResult_NoEcho(a) ==
    [type |-> <<"unknown">>, status |-> "error", error |-> "unknown action"]

\* The dict appended for an unknown type: a_type or "unknown", the raw action.
UnknownResult(a) ==
    [type |-> IF Truthy(Get(a.type)) THEN Get(a.type).v ELSE <<"unknown">>,
     status |-> "error",
     error |-> "unknown action",
     raw_action |-> a]

\* Any other type, a missing type included.
DoUnknown(a) ==
    /\ Take(a)
    /\ \A t \in {T_LIST, T_READ, T_WRITE, T_MODIFY, T_RUN} : ~TypeIs(a, t)
    /\ Continue(UnknownResult(a))
    /\ UNCHANGED <<fsVars, now, cfgVars, call, guardVars, histVars>>

\* return {"results": results}
Return ==
    /\ ctl = "exec"
    /\ idx > blen
    /\ ctl' = "idle"
    /\ outcome' = "returned"
    /\ UNCHANGED <<fsVars, now, cfgVars, call, execVars, exc, guardVars, histVars>>

\* --------------------------------------------- safe_modify_engine_backtest

\* Faulty variants of the guard's lines: what a slip in each line would
\* write.
NotEngineFile_Never(path) == FALSE
WrittenContent_Original(original_content, new_content) == original_content
CompileRestore_New(original_content, new_content) == new_content
SmokeRestore_New(original_content, new_content) == new_content
BackupContent_New(original_content, new_content) == new_content
BackupContent_Empty(original_content, new_content) == <<>>
CheckFailed_Never(res) == FALSE

\* Line 114: path.resolve() != engine_file.resolve()
NotEngineFile(path) == Canon(path.v) # ENGINE

\* Line 122: not engine_file.exists()
EngineMissing(fs) == ENGINE \notin DOMAIN fs

\* Line 134: what backup_file.write_text writes.
BackupContent(original_content, new_content) == original_content

\* Line 136: what engine_file.write_text writes.
WrittenContent(original_content, new_content) == new_content

\* Line 143: what is written back after a failed syntax check.
CompileRestore(original_content, new_content) == original_content

\* Line 159: what is written back after a failed smoke backtest.
SmokeRestore(original_content, new_content) == original_content

\* Lines 142 and 158: result["returncode"] != 0
CheckFailed(res) == res.returncode # 0

\* The four dicts the guard returns.
BlockedResult(path) ==
    [type |-> T_WRITE, path |-> path, status |-> "blocked", error |-> "blocked"]

RevertedCompile(ts, cres) ==
    [type |-> T_WRITE, path |-> PathOf(ENGINE), status |-> "reverted", stage |-> "compile",
     error |-> "compile failed", backup_path |-> BackupPath(ts), compile_result |-> cres]

RevertedSmoke(ts, sres) ==
    [type |-> T_WRITE, path |-> PathOf(ENGINE), status |-> "reverted", stage |-> "smoke_test",
     error |-> "smoke test failed", backup_path |-> BackupPath(ts), smoke_result |-> sres]

OkResult(ts, cres, sres) ==
    [type |-> T_WRITE, path |-> PathOf(ENGINE), status |-> "ok",
     backup_path |-> BackupPath(ts), compile_result |-> cres, smoke_result |-> sres]

\* The guard returns dict res: to a direct caller, or into the dispatcher's
\* "ok, msg = ..." and its except branch.
GuardReturn(res) ==
    /\ gStage' = "done"
    /\ gRes' = <<res>>
    /\ IF caller = "direct"
       THEN /\ ctl' = "idle"
            /\ outcome' = "returned"
            /\ exc' = ""
            /\ UNCHANGED execVars
       ELSE /\ ctl' = "exec"
            /\ results' = Append(results,
                 IF UnpackExc(res) # ""
                 THEN ModifyError(gPath, UnpackExc(res))
                 ELSE [type |-> T_MODIFY, path |-> gPath, status |-> "ok", message |-> "key"])
            /\ idx' = idx + 1
            /\ UNCHANGED <<blen, actions, outcome, exc>>

\* The guard raises e: out of a direct call, or into the dispatcher's except
\* branch.
GuardRaise(e) ==
    /\ gStage' = "done"
    /\ gRes' = <<>>
    /\ IF caller = "direct"
       THEN /\ ctl' = "idle"
            /\ outcome' = "raised"
            /\ exc' = e
            /\ UNCHANGED execVars
       ELSE /\ ctl' = "exec"
            /\ results' = Append(results, ModifyError(gPath, e))
            /\ idx' = idx + 1
            /\ UNCHANGED <<blen, actions, outcome, exc>>

\* The guard does not end at this step.
GuardGoes(stage) ==
    /\ gStage' = stage
    /\ UNCHANGED <<ctl, outcome, exc, execVars, gRes>>

\* safe_modify_engine_backtest(path, new_content) is called directly.
GuardCall(path, content) ==
    /\ ctl = "idle"
    /\ ctl' = "guard"
    /\ call' = "guard"
    /\ caller' = "direct"
    /\ gPath' = path
    /\ gNew' = content
    /\ gStage' = "validate"
    /\ gOrig' = <<>>
    /\ gBackup' = 0
    /\ gCompile' = <<>>
    /\ gSmoke' = <<>>
    /\ gRes' = <<>>
    /\ outcome' = "none"
    /\ exc' = ""
    /\ log' = <<>>
    /\ preFiles' = files
    /\ preDirs' = dirs
    /\ UNCHANGED <<fsVars, now, cfgVars, execVars, verified>>

AtStage(stage) == ctl = "guard" /\ gStage = stage

\* Lines 113-128: the path must be engine/backtest.py, which must exist.
GValidate ==
    /\ AtStage("validate")
    /\ IF ResolveExc(gPath) # "" THEN GuardRaise(ResolveExc(gPath))
       ELSE IF NotEngineFile(gPath) THEN GuardReturn(BlockedResult(gPath))
       ELSE IF EngineMissing(files) THEN GuardReturn(BlockedResult(PathOf(ENGINE)))
       ELSE GuardGoes("snapshot")
    /\ UNCHANGED <<fsVars, now, cfgVars, call, caller, gPath, gNew, gOrig, gBackup, gCompile, gSmoke,
                   histVars>>

\* Line 130: original_content = engine_file.read_text(); the read may raise.
GSnapshot ==
    /\ AtStage("snapshot")
    /\ \/ /\ gOrig' = files[ENGINE]
          /\ log' = Append(log, "read_engine")
          /\ GuardGoes("backup")
       \/ /\ GuardRaise("OSError")
          /\ UNCHANGED <<gOrig, log>>
    /\ UNCHANGED <<fsVars, now, cfgVars, call, caller, gPath, gNew, gBackup, gCompile, gSmoke,
                   preFiles, preDirs, verified>>

\* Lines 132-134: the backup, named by the current UTC second; the write may
\* raise.
GBackup ==
    /\ AtStage("backup")
    /\ gBackup' = now
    /\ \/ /\ files' = WriteTo(files, BackupPath(now), BackupContent(gOrig, gNew))
          /\ log' = Append(log, "write_backup")
          /\ GuardGoes("write")
       \/ /\ GuardRaise("OSError")
          /\ UNCHANGED <<files, log>>
    /\ UNCHANGED <<dirs, now, cfgVars, call, caller, gPath, gNew, gOrig, gCompile, gSmoke,
                   preFiles, preDirs, verified>>

\* Line 136: engine_file.write_text(new_content); the write may raise.
GWrite ==
    /\ AtStage("write")
    /\ \/ /\ files' = WriteTo(files, ENGINE, WrittenContent(gOrig, gNew))
          /\ log' = Append(log, "write_engine")
          /\ GuardGoes("compile")
       \/ /\ GuardRaise("OSError")
          /\ UNCHANGED <<files, log>>
    /\ UNCHANGED <<dirs, now, cfgVars, call, caller, gPath, gNew, gOrig, gBackup, gCompile, gSmoke,
                   preFiles, preDirs, verified>>

\* Lines 138-152: the syntax check; a nonzero exit restores the original.
\* run_command, and the restoring write, may raise.
GCompile ==
    /\ AtStage("compile")
    /\ BindExc(GuardCallArgs) = ""
    /\ \/ /\ log' = Append(log, "spawn_compile")
          /\ GuardRaise("OSError")
          /\ UNCHANGED <<files, gCompile>>
       \/ \E rc \in ExitCodes :
            /\ gCompile' = <<CmdResult(rc)>>
            /\ IF CheckFailed(CmdResult(rc))
               THEN \/ /\ files' = WriteTo(files, ENGINE, CompileRestore(gOrig, gNew))
                       /\ log' = log \o <<"spawn_compile", "restore_engine">>
                       /\ GuardReturn(RevertedCompile(gBackup, CmdResult(rc)))
                    \/ /\ log' = Append(log, "spawn_compile")
                       /\ GuardRaise("OSError")
                       /\ UNCHANGED files
               ELSE /\ log' = Append(log, "spawn_compile")
                    /\ GuardGoes("smoke")
                    /\ UNCHANGED files
    /\ UNCHANGED <<dirs, now, cfgVars, call, caller, gPath, gNew, gOrig, gBackup, gSmoke,
                   preFiles, preDirs, verified>>

\* Lines 154-168: the smoke backtest; a nonzero exit restores the original.
GSmoke ==
    /\ AtStage("smoke")
    /\ BindExc(GuardCallArgs) = ""
    /\ \/ /\ log' = Append(log, "spawn_smoke")
          /\ GuardRaise("OSError")
          /\ UNCHANGED <<files, gSmoke, verified>>
       \/ \E rc \in ExitCodes :
            /\ gSmoke' = <<CmdResult(rc)>>
            /\ IF CheckFailed(CmdResult(rc))
               THEN /\ UNCHANGED verified
                    /\ \/ /\ files' = WriteTo(files, ENGINE, SmokeRestore(gOrig, gNew))
                          /\ log' = log \o <<"spawn_smoke", "restore_engine">>
                          /\ GuardReturn(RevertedSmoke(gBackup, CmdResult(rc)))
                       \/ /\ log' = Append(log, "spawn_smoke")
                          /\ GuardRaise("OSError")
                          /\ UNCHANGED files
               ELSE /\ log' = Append(log, "spawn_smoke")
                    /\ verified' = verified \cup {gNew}
                    /\ GuardGoes("commit")
                    /\ UNCHANGED files
    /\ UNCHANGED <<dirs, now, cfgVars, call, caller, gPath, gNew, gOrig, gBackup, gCompile,
                   preFiles, preDirs>>

\* Lines 170-177: both checks passed, the new content stays.
GCommit ==
    /\ AtStage("commit")
    /\ GuardReturn(OkResult(gBackup, gCompile[1], gSmoke[1]))
    /\ UNCHANGED <<fsVars, now, cfgVars, call, caller, gPath, gNew, gOrig, gBackup, gCompile, gSmoke,
                   histVars>>

\* The UTC clock reaches the next second.
Tick ==
    /\ now < MaxTime
    /\ now' = now + 1
    /\ UNCHANGED <<fsVars, cfgVars, call, ctl, execVars, outcome, exc, guardVars, histVars>>

\* ---------------------------------------------------------- specifications

\* Arguments of the direct calls of the guard.
GuardPaths == {PathOf(ENGINE), PathOf(<<".", "engine", "backtest.py">>), PathOf(README), Str(ENGINE)}
GuardContents == {V1, V2}

\* Neither is_under_strategies nor main takes part in the step.
Apart == UNCHANGED <<pathVars, mainVars>>

ExecStep ==
    \/ \E a \in ActionSet :
         \/ DoListDir(a) /\ Apart
         \/ DoReadFile(a) /\ Apart
         \/ DoWriteFile(a) /\ Apart
         \/ DoModifyEngine(a) /\ Apart
         \/ DoRunCommand(a) /\ Apart
         \/ DoUnknown(a) /\ Apart
    \/ Return /\ Apart

GuardStep ==
    \/ GValidate /\ Apart
    \/ GSnapshot /\ Apart
    \/ GBackup /\ Apart
    \/ GWrite /\ Apart
    \/ GCompile /\ Apart
    \/ GSmoke /\ Apart
    \/ GCommit /\ Apart

\* The driver's use: batches through execute_actions.
NextBatch ==
    \/ \E n \in 0..MaxBatch : StartBatch(n) /\ Apart
    \/ ExecStep

SpecBatch == Init /\ [][NextBatch]_vars

\* The guard called on its own, with the clock running.
NextGuard ==
    \/ \E path \in GuardPaths, content \in GuardContents : GuardCall(path, content) /\ Apart
    \/ GuardStep
    \/ Tick /\ Apart

SpecGuard == Init /\ [][NextGuard]_vars

\* Both entry points together.  The properties of execute_actions are stated
\* under SpecBatch and those of the guard under SpecGuard: a batch never gets
\* past the guard's first line (ResolveExc), so the two do not interact.
Next ==
    \/ \E n \in 0..MaxBatch : StartBatch(n) /\ Apart
    \/ ExecStep
    \/ \E path \in GuardPaths, content \in GuardContents : GuardCall(path, content) /\ Apart
    \/ GuardStep
    \/ Tick /\ Apart

Spec == Init /\ [][Next]_vars

\* ------------------------------------------------------------- properties

\* A call of execute_actions has ended, by returning or by raising.
BatchEnded == ctl = "idle" /\ call = "execute_actions"

\* A direct call of the guard has ended, by returning or by raising.
GuardEnded == ctl = "idle" /\ call = "guard"

\* A direct call of the guard, given a Path, has returned a dict.
GuardReturned == GuardEnded /\ outcome = "returned" /\ gPath.k = "Path"

\* The exit codes of the checks the ended attempt ran.
CompileRan == gCompile # <<>>
SmokeRan == gSmoke # <<>>
CompileZero == CompileRan /\ gCompile[1].returncode = 0
SmokeZero == SmokeRan /\ gSmoke[1].returncode = 0

\* The content of engine/backtest.py in a file system, <<"absent">> when the
\* file does not exist.
EngineContent(fs) == IF ENGINE \in DOMAIN fs THEN fs[ENGINE] ELSE <<"absent">>

\* Result r answers action a: it is the dict a's branch of the dispatcher
\* builds (its type is a's type, "unknown" for a missing one).
Answers(r, a) ==
    r.type = (IF Truthy(Get(a.type)) THEN Get(a.type).v ELSE <<"unknown">>)

\* Result r reports a failure.
IsErrorResult(r) ==
    \/ "error" \in DOMAIN r
    \/ ("status" \in DOMAIN r /\ r.status = "error")

\* The command of action a, when given, is a string (a JSON null is not).
CommandIsString(a) == GetOr(a.command, Str(<<>>)).k = "str"

\* The handler of the i-th action failed: it raised, or its result reports an
\* error.
Failed(i) == i > Len(results) \/ IsErrorResult(results[i])

\* C1: every batch gets a results list as long as the batch, results[i]
\* answering actions[i]: a call of execute_actions (with string commands)
\* ends by returning such a list.
C1_OneResultPerAction ==
    (BatchEnded /\ \A i \in 1..Len(actions) : CommandIsString(actions[i])) =>
        /\ outcome = "returned"
        /\ Len(results) = blen
        /\ \A i \in 1..blen : Answers(results[i], actions[i])

\* C2: no exception escapes the dispatcher: no call of execute_actions ends
\* by raising at an action of one of the variants (whose command, if any, is
\* a string).
C2_NoExceptionEscapes ==
    ~(BatchEnded /\ outcome = "raised" /\ CommandIsString(actions[Len(actions)]))

\* C3: per-item containment: when the call has ended, every action of the
\* batch after one that failed has been executed and has its result.
C3_ErrorContained ==
    (BatchEnded /\ \A i \in 1..Len(actions) : CommandIsString(actions[i])) =>
        \A i \in 1..Len(actions) :
            Failed(i) => \A j \in (i + 1)..blen : j <= Len(actions) /\ j <= Len(results)

\* C4: with ALLOW_MODIFY_ENGINE true, after a batch the protected file holds
\* its initial content or a content whose two checks exited zero, whatever
\* the batch was (write_file to engine/backtest.py included).
C4_EngineOnlyVerified ==
    (allowModify /\ BatchEnded /\ ENGINE \in DOMAIN preFiles) =>
        (EngineContent(files) = InitContent \/ EngineContent(files) \in verified)

\* C5: with the flag enabled, the result appended for a modify_engine action
\* is the guard's outcome: ok, reverted or blocked, and blocked when the path
\* is not the protected file.
C5_ModifyReportsGuard ==
    allowModify =>
        \A i \in 1..Len(results) :
            TypeIs(actions[i], T_MODIFY) =>
                /\ results[i].status \in {"ok", "reverted", "blocked"}
                /\ (Get(actions[i].path).k = "str" /\ Canon(Get(actions[i].path).v) # ENGINE)
                       => results[i].status = "blocked"

\* C6: the guard returns after a compile check that exited nonzero: the
\* protected file holds its pre-call content, the result is reverted at stage
\* compile, the smoke test was not run, and the backup named in backup_path
\* exists with the pre-call content.
C6_CompileFailureReverts ==
    (GuardReturned /\ CompileRan /\ ~CompileZero) =>
        /\ EngineContent(files) = EngineContent(preFiles)
        /\ gRes[1].status = "reverted"
        /\ gRes[1].stage = "compile"
        /\ ~SmokeRan
        /\ \A i \in 1..Len(log) : log[i] # "spawn_smoke"
        /\ gRes[1].backup_path \in DOMAIN files
        /\ files[gRes[1].backup_path] = EngineContent(preFiles)

C6_Witness ==
    /\ GuardReturned /\ CompileRan /\ ~CompileZero
    /\ gNew # EngineContent(preFiles)
    /\ gRes[1].stage = "compile"

\* C7: the guard returns after a compile check that exited zero and a smoke
\* test that exited nonzero: the protected file holds its pre-call content,
\* the result is reverted at stage smoke_test, and the backup exists with the
\* pre-call content.
C7_SmokeFailureReverts ==
    (GuardReturned /\ CompileZero /\ SmokeRan /\ ~SmokeZero) =>
        /\ EngineContent(files) = EngineContent(preFiles)
        /\ gRes[1].status = "reverted"
        /\ gRes[1].stage = "smoke_test"
        /\ gRes[1].backup_path \in DOMAIN files
        /\ files[gRes[1].backup_path] = EngineContent(preFiles)

C7_Witness ==
    /\ GuardReturned /\ CompileZero /\ SmokeRan /\ ~SmokeZero
    /\ gNew # EngineContent(preFiles)
    /\ gRes[1].stage = "smoke_test"

\* C8: the guard returns after both checks exited zero: the protected file
\* holds the proposed content and the result is ok with the backup path and
\* both check outputs; and a result is ok only then.
C8_CommitKeepsNewContent ==
    GuardReturned =>
        /\ (CompileZero /\ SmokeZero) =>
               /\ EngineContent(files) = gNew
               /\ gRes[1].status = "ok"
               /\ {"backup_path", "compile_result", "smoke_result"} \subseteq DOMAIN gRes[1]
               /\ gRes[1].backup_path = BackupPath(gBackup)
               /\ gRes[1].compile_result = gCompile[1]
               /\ gRes[1].smoke_result = gSmoke[1]
        /\ gRes[1].status = "ok" => (CompileZero /\ SmokeZero)

C8_Witness ==
    /\ GuardReturned /\ CompileZero /\ SmokeZero
    /\ gNew # EngineContent(preFiles)
    /\ gRes[1].status = "ok"

\* C9: however an attempt that reached the Write step ends (a result or an
\* exception), the protected file holds the proposed content if both checks
\* exited zero and its pre-attempt content otherwise.
C9_RollbackOnEveryEnd ==
    (GuardEnded /\ \E i \in 1..Len(log) : log[i] = "write_engine") =>
        EngineContent(files) = (IF CompileZero /\ SmokeZero THEN gNew ELSE EngineContent(preFiles))

\* C10: a path that is not the protected file, or a protected file that does
\* not exist: the guard returns blocked and the file system is as before the
\* call, with no backup, no write and no subprocess.
C10_ValidationBlocks ==
    (GuardEnded /\ gPath.k = "Path" /\ (Canon(gPath.v) # ENGINE \/ ENGINE \notin DOMAIN preFiles)) =>
        /\ outcome = "returned"
        /\ gRes[1].status = "blocked"
        /\ files = preFiles
        /\ dirs = preDirs
        /\ log = <<>>
        /\ gBackup = 0

C10_Witness ==
    /\ GuardEnded /\ gPath.k = "Path"
    /\ Canon(gPath.v) # ENGINE
    /\ ENGINE \in DOMAIN preFiles
    /\ gRes # <<>>

\* ------------------------------------------- properties of single actions

\* This step is the loop of execute_actions handling its next action.
Handling == ctl = "exec" /\ Len(actions') = Len(actions) + 1

\* The action this step handles.
Handled == actions'[Len(actions')]

\* This step appends exactly one result, r, and the loop goes on.
Appends(r) == results' = Append(results, r) /\ ctl' = "exec" /\ idx' = idx + 1

\* This step leaves the file system alone and spawns no subprocess.
NoEffect == files' = files /\ dirs' = dirs /\ log' = log

\* C11: with ALLOW_MODIFY_ENGINE disabled, a modify_engine action (any path,
\* any content) gets a blocked result, the file system is unchanged, the
\* guard is not entered and no subprocess is spawned.
C11_DisabledModifyBlocked ==
    [][(Handling /\ TypeIs(Handled, T_MODIFY) /\ ~allowModify) =>
          /\ Len(results') = Len(results) + 1
          /\ results'[Len(results')].status = "blocked"
          /\ ctl' = "exec"
          /\ NoEffect
          /\ UNCHANGED guardVars]_vars

C11_Witness ==
    /\ ~allowModify
    /\ \E i \in 1..Len(results) :
          /\ TypeIs(actions[i], T_MODIFY)
          /\ Get(actions[i].path) = Str(ENGINE)
          /\ results[i].status = "blocked"

\* The action this step handles is a run_command whose command is a string.
HandlingRun == Handling /\ TypeIs(Handled, T_RUN) /\ GetOr(Handled.command, Str(<<>>)).k = "str"

\* The command of the handled action after .strip().
Trimmed == Strip(GetOr(Handled.command, Str(<<>>)).v)

\* The command starts with one of the six prefixes of the source's list.
Whitelisted(c) == \E i \in 1..Len(allowed_prefixes) : StartsWith(c, allowed_prefixes[i])

\* The result this step appended.
NewResult == results'[Len(results')]

\* This step appends one result of status st for a command, spawning nothing.
RefusedAs(st) ==
    /\ Len(results') = Len(results) + 1
    /\ NewResult.status = st
    /\ ctl' = "exec"
    /\ log' = log

\* C12 as stated: with commands enabled, a run_command whose trimmed command
\* starts with no allowed prefix gets a blocked result and spawns nothing.
C12_NonWhitelistedBlocked ==
    [][(HandlingRun /\ allowRun /\ ~Whitelisted(Trimmed)) => RefusedAs("blocked")]_vars

\* C12 amended: with commands enabled, a run_command whose trimmed command is
\* not empty and starts with no allowed prefix gets a blocked result and
\* spawns nothing (an empty trimmed command gets an error result instead).
C12_NonEmptyNonWhitelistedBlocked ==
    [][(HandlingRun /\ allowRun /\ Trimmed # <<>> /\ ~Whitelisted(Trimmed)) =>
          RefusedAs("blocked")]_vars

C12_Witness ==
    /\ allowRun
    /\ \E i \in 1..Len(results) :
          /\ TypeIs(actions[i], T_RUN)
          /\ actions[i].command = Str(<<"rm -rf /">>)
          /\ results[i].status = "blocked"
          /\ results[i].error = "Comando bloqueado"
          /\ log = <<>>

\* C13: with commands enabled, a run_command whose trimmed command starts
\* with an allowed prefix is executed exactly once, and its result carries
\* returncode, stdout and stderr, with status ok for exit code 0 and error
\* for any other.
C13_WhitelistedExecuted ==
    [][(HandlingRun /\ allowRun /\ Whitelisted(Trimmed)) =>
          /\ log' = Append(log, "spawn_command")
          /\ Len(results') = Len(results) + 1
          /\ {"returncode", "stdout", "stderr"} \subseteq DOMAIN NewResult
          /\ NewResult.status = (IF NewResult.returncode = 0 THEN "ok" ELSE "error")]_vars

\* C14 as stated: with ALLOW_RUN_COMMANDS false, a run_command with a
\* non-empty command gets a blocked result and spawns nothing, whitelisted
\* or not.
C14_DisabledRunBlocked ==
    [][(HandlingRun /\ ~allowRun /\ Handled.command # Str(<<>>) /\ Handled.command # Absent) =>
          RefusedAs("blocked")]_vars

\* C14 amended: with ALLOW_RUN_COMMANDS false, a run_command whose command is
\* not empty after trimming gets a blocked result and spawns nothing,
\* whitelisted or not (a command of white space only gets an error result).
C14_DisabledTrimmedRunBlocked ==
    [][(HandlingRun /\ ~allowRun /\ Trimmed # <<>>) => RefusedAs("blocked")]_vars

C14_Witness ==
    /\ ~allowRun
    /\ \E i \in 1..Len(results) :
          /\ TypeIs(actions[i], T_RUN)
          /\ Whitelisted(Strip(actions[i].command.v))
          /\ results[i].status = "blocked"
          /\ results[i].error = "ALLOW_RUN_COMMANDS=False"
          /\ log = <<>>

\* The type of action a is none of the five the dispatcher knows.
UnknownType(a) == \A t \in {T_LIST, T_READ, T_WRITE, T_MODIFY, T_RUN} : ~TypeIs(a, t)

\* C15: an action whose type is none of list_dir, read_file, write_file,
\* modify_engine, run_command (a missing type included) gets exactly one
\* result of status error that echoes the action, and the file system is
\* unchanged and nothing is spawned.
C15_UnknownTypeError ==
    [][(Handling /\ UnknownType(Handled)) =>
          /\ Len(results') = Len(results) + 1
          /\ NewResult.status = "error"
          /\ "raw_action" \in DOMAIN NewResult
          /\ NewResult.raw_action = Handled
          /\ ctl' = "exec"
          /\ NoEffect]_vars

C15_Witness ==
    \E i, j \in 1..Len(results) :
        /\ actions[i].type = Absent
        /\ results[i].status = "error"
        /\ results[i].raw_action = actions[i]
        /\ actions[j].type = Str(<<"delete_file">>)
        /\ results[j].status = "error"
        /\ results[j].raw_action = actions[j]

\* Result r carries a status, one of the four.
HasStatus(r) == "status" \in DOMAIN r /\ r.status \in {"ok", "error", "blocked", "reverted"}

\* C16: every result execute_actions produces, for every kind of action, on
\* success and on failure, carries a status that is one of ok, error,
\* blocked, reverted.
C16_EveryResultHasStatus == \A i \in 1..Len(results) : HasStatus(results[i])

\* C17: backups are immutable: a backup file that exists keeps existing and
\* keeps its content through every later step of every later attempt.
C17_BackupsImmutable ==
    [][\A ts \in 1..MaxTime :
          BackupPath(ts) \in DOMAIN files =>
              /\ BackupPath(ts) \in DOMAIN files'
              /\ files'[BackupPath(ts)] = files[BackupPath(ts)]]_vars

\* Nothing in the file system stands in the way of writing path p: p is not
\* a directory and no ancestor of p is a file.
Writable(p) ==
    /\ Canon(p) \notin dirs
    /\ \A d \in Ancestors(Canon(p)) : d \notin DOMAIN files

\* C18: a write_file with a non-empty path (one without a directory part and
\* one with missing parents included) and nothing in its way creates the
\* missing parents, leaves the file holding the action's content, and gets
\* status ok.
C18_WriteFileWrites ==
    [][(/\ Handling
        /\ TypeIs(Handled, T_WRITE)
        /\ Truthy(Get(Handled.path))
        /\ Handled.content.k = "str"
        /\ Writable(Handled.path.v)) =>
          /\ Len(results') = Len(results) + 1
          /\ HasStatus(NewResult)
          /\ NewResult.status = "ok"
          /\ Canon(Handled.path.v) \in DOMAIN files'
          /\ files'[Canon(Handled.path.v)] = Handled.content.v
          /\ Ancestors(Canon(Handled.path.v)) \subseteq dirs']_vars

\* Action a lacks the field its type requires: the path of list_dir,
\* read_file, write_file and modify_engine, the command of run_command
\* (absent, null or empty).
MissingField(a) ==
    \/ /\ \E t \in {T_LIST, T_READ, T_WRITE, T_MODIFY} : TypeIs(a, t)
       /\ ~Truthy(Get(a.path))
    \/ /\ TypeIs(a, T_RUN)
       /\ ~Truthy(Get(a.command))

\* C19: an action lacking its required field gets an error result, changes
\* nothing in the file system, spawns nothing, and the batch goes on.
C19_MissingFieldError ==
    [][(Handling /\ MissingField(Handled)) =>
          /\ Len(results') = Len(results) + 1
          /\ IsErrorResult(NewResult)
          /\ ~("status" \in DOMAIN NewResult /\ NewResult.status # "error")
          /\ ctl' = "exec"
          /\ idx' = idx + 1
          /\ NoEffect]_vars

\* The command starts with one of the five documented forms.
Documented(c) == \E i \in 1..Len(documented_prefixes) : StartsWith(c, documented_prefixes[i])

\* C20: run_command executes a command only if it starts with one of the
\* five documented forms; with commands enabled, every other (non-empty)
\* command gets a blocked result and is not executed.
C20_OnlyDocumentedCommands ==
    [][(HandlingRun /\ allowRun /\ Trimmed # <<>> /\ ~Documented(Trimmed)) =>
          /\ RefusedAs("blocked")
          /\ NewResult.command = Trimmed]_vars

\* Canonical path p is one write_file is documented to write: one of
\* write_targets or a .py file under strategies/.
DocumentedTarget(p) ==
    \/ p \in write_targets
    \/ (Len(p) >= 2 /\ p[1] = "strategies" /\ p[Len(p)] = "example_ma_crossover.py")

\* C21: a write_file action leaves every existing file outside the
\* documented set of targets unchanged.
C21_WriteFileOnlyDocumented ==
    [][(Handling /\ TypeIs(Handled, T_WRITE)) =>
          \A p \in DOMAIN files :
              ~DocumentedTarget(p) => (p \in DOMAIN files' /\ files'[p] = files[p])]_vars

\* ------------------------------------------------ properties of the guard

\* The events of a whole attempt, in the order of the protocol.
GuardOrder == <<"read_engine", "write_backup", "write_engine", "spawn_compile", "spawn_smoke">>

\* Sequence s is a prefix of sequence t.
IsPrefix(s, t) == Len(s) <= Len(t) /\ s = SubSeq(t, 1, Len(s))

\* Event e happened in the current attempt.
Happened(e) == \E i \in 1..Len(log) : log[i] = e

\* The events of the current attempt without a final restore.
LogCore ==
    IF log # <<>> /\ log[Len(log)] = "restore_engine" THEN SubSeq(log, 1, Len(log) - 1) ELSE log

\* C22: the guard goes through snapshot, backup, write, compile check, smoke
\* test in this order; the backup holds the original content before the
\* protected file is overwritten; the smoke test runs only after a compile
\* check that exited zero; reverted is reached only after the write; blocked
\* only before any backup or write.
C22_GuardOrder ==
    (call = "guard") =>
        /\ IsPrefix(LogCore, GuardOrder)
        /\ (AtStage("write") \/ Happened("write_engine")) =>
              /\ BackupPath(gBackup) \in DOMAIN files
              /\ files[BackupPath(gBackup)] = EngineContent(preFiles)
        /\ AtStage("write") => files[ENGINE] = EngineContent(preFiles)
        /\ Happened("spawn_smoke") => CompileZero
        /\ (gRes # <<>> /\ gRes[1].status = "reverted") => Happened("write_engine")
        /\ (gRes # <<>> /\ gRes[1].status = "blocked") => (log = <<>> /\ files = preFiles)

C22_Witness ==
    /\ GuardReturned
    /\ gRes[1].status = "ok"
    /\ log = GuardOrder
    /\ gNew # EngineContent(preFiles)

\* C23: an attempt made in a second in which an earlier attempt already made
\* its backup uses the same backup path, and from then on that file holds
\* the content the protected file had before this later attempt.
C23_SameSecondBackup ==
    (call = "guard" /\ Happened("write_backup") /\ BackupPath(gBackup) \in DOMAIN preFiles) =>
        /\ BackupPath(gBackup) \in DOMAIN files
        /\ files[BackupPath(gBackup)] = EngineContent(preFiles)

C23_Witness ==
    /\ GuardEnded
    /\ Happened("write_backup")
    /\ BackupPath(gBackup) \in DOMAIN preFiles
    /\ preFiles[BackupPath(gBackup)] # EngineContent(preFiles)
    /\ files[BackupPath(gBackup)] = EngineContent(preFiles)

\* C24: in a batch, a write_file(p, c) followed later by a read_file(p), with
\* no write in between, makes the read_file result's content c.
C24_ReadSeesEarlierWrite ==
    \A i, j \in 1..Len(results) :
        (/\ i < j
         /\ TypeIs(actions[i], T_WRITE)
         /\ TypeIs(actions[j], T_READ)
         /\ Truthy(Get(actions[i].path))
         /\ actions[i].content.k = "str"
         /\ actions[j].path = actions[i].path
         /\ \A k \in (i + 1)..(j - 1) :
               ~TypeIs(actions[k], T_WRITE) /\ ~TypeIs(actions[k], T_MODIFY)) =>
            /\ "content" \in DOMAIN results[j]
            /\ results[j].content = actions[i].content.v

\* This step is a call of the guard that follows an attempt that returned.
NextAttempt == GuardReturned /\ ctl' = "guard"

\* This step is the attempt writing its backup, in a second no earlier
\* attempt made a backup in.
FreshBackup == AtStage("backup") /\ gStage' = "write" /\ BackupPath(now) \notin DOMAIN files

\* C30: with attempts at distinct seconds, an attempt starts from the content
\* the attempt before it left (the proposed content if that one committed,
\* its pre-attempt content if it reverted), its backup holds that content,
\* and the backups of earlier attempts stay as they are.
C30_BackupsFaithfulHistory ==
    [][/\ NextAttempt =>
            /\ EngineContent(preFiles') = EngineContent(files)
            /\ gRes[1].status = "ok" => EngineContent(files) = gNew
            /\ gRes[1].status = "reverted" => EngineContent(files) = gOrig
            /\ gRes[1].status = "blocked" => EngineContent(files) = EngineContent(preFiles)
       /\ FreshBackup =>
            /\ files'[BackupPath(now)] = EngineContent(preFiles)
            /\ \A ts \in 1..MaxTime :
                  BackupPath(ts) \in DOMAIN files =>
                      (BackupPath(ts) \in DOMAIN files' /\ files'[BackupPath(ts)] = files[BackupPath(ts)])]_vars

C30_Witness ==
    /\ GuardReturned
    /\ gRes[1].status = "reverted"
    /\ BackupPath(1) \in DOMAIN files
    /\ BackupPath(2) \in DOMAIN files
    /\ files[BackupPath(1)] = InitContent
    /\ files[BackupPath(2)] # InitContent
    /\ files[BackupPath(2)] = EngineContent(files)

\* ----------------------------------------------------- is_under_strategies

\* Path.resolve() of a relative path, taken from working directory d.
Resolve(d, p) == Canon(d \o p)

\* (ROOT_DIR / "strategies").resolve()
strategies_root == Resolve(ROOT_DIR, <<"strategies">>)

\* PurePath.is_relative_to(other): other's parts are the first parts of p.
IsRelativeTo(p, other) == Len(other) <= Len(p) /\ SubSeq(p, 1, Len(other)) = other

\* PurePath.parents: the ancestors of p, the nearest first.
Parents(p) == [n \in 1..Len(p) |-> SubSeq(p, 1, Len(p) - n)]

\* A faulty fallback: the equality test is left out.
Fallback_NoEqual(resolved, root) == \E n \in 1..Len(Parents(resolved)) : Parents(resolved)[n] = root

\* strategies_root == resolved or strategies_root in resolved.parents
Fallback(resolved, root) ==
    \/ root = resolved
    \/ \E n \in 1..Len(Parents(resolved)) : Parents(resolved)[n] = root

\* is_under_strategies(path): the native test, or, where Path has no
\* is_relative_to (AttributeError), the fallback.
is_under_strategies ==
    /\ uret = <<>>
    /\ uret' = << IF native
                  THEN IsRelativeTo(Resolve(cwd, upath), strategies_root)
                  ELSE Fallback(Resolve(cwd, upath), strategies_root) >>
    /\ UNCHANGED <<cwd, upath, native>>

\* Components and working directories of the arguments.
PathParts == {"strategies", "engine", "x.py", ".", ".."}
PathInputs == UNION {[1..n -> PathParts] : n \in 0..MaxPath}
Cwds == {ROOT_DIR, ROOT_DIR \o <<"strategies">>, ROOT_DIR \o <<"agent">>}

InitPaths ==
    /\ InitExec
    /\ InitMainIdle
    /\ cwd \in Cwds
    /\ upath \in PathInputs
    /\ native \in BOOLEAN
    /\ uret = <<>>

NextPaths ==
    is_under_strategies
      /\ UNCHANGED <<fsVars, now, cfgVars, ctl, call, execVars, outcome, exc, guardVars, histVars,
                     mainVars>>

SpecPaths == InitPaths /\ [][NextPaths]_vars

\* Path q is p itself or lies below p.
AtOrBelow(q, p) == \E n \in 0..Len(q) : SubSeq(q, 1, n) = p

\* C25: is_under_strategies(path) is true iff the resolved path is the
\* resolved strategies root or a descendant of it, and the ancestor-walk
\* fallback gives the same answer as the native branch.
C25_UnderStrategies ==
    (uret # <<>>) =>
        /\ uret[1] = AtOrBelow(Resolve(cwd, upath), strategies_root)
        /\ IsRelativeTo(Resolve(cwd, upath), strategies_root)
             = Fallback(Resolve(cwd, upath), strategies_root)

C25_Witness ==
    /\ uret = <<TRUE>>
    /\ ~native
    /\ Resolve(cwd, upath) = strategies_root
    /\ upath # <<>>

\* -------------------------------------------------------------------- main

\* json.dumps(x, indent=...): the text of x; equal texts come from equal
\* values and equal layouts only.
JsonDumps(x, indent) == [dumps |-> x, indent |-> indent]

\* Faulty variants of the lines of the loop.
StepLogPath_Fixed(n) == <<"logs", "agent_step_1.json">>
AssistantMessage_AsUser(acts, res) ==
    [role |-> "user",
     content |-> [text |-> "", fed |-> <<JsonDumps([actions |-> acts, results |-> res], 0)>>]]
Feedback_Empty(res) == [text |-> "Aqui estao os resultados", fed |-> <<JsonDumps(<<>>, 0)>>]
NoActions_Never(n) == FALSE

\* logs_dir / f"agent_step_{step}.json"
StepLogPath(n) == <<"logs", "agent_step_" \o ToString(n) \o ".json">>

\* The text written to the step log.
StepLog(n, acts, res) == JsonDumps([step |-> n, actions |-> acts, results |-> res], 2)

\* {"role": "user", "content": user_content}
UserMessage(content) == [role |-> "user", content |-> content]

\* The message appended after a batch, in the assistant's name.
AssistantMessage(acts, res) ==
    [role |-> "assistant",
     content |-> [text |-> "", fed |-> <<JsonDumps([actions |-> acts, results |-> res], 0)>>]]

\* The next user_content: the results of the batch and the request to go on.
Feedback(res) == [text |-> "Aqui estao os resultados", fed |-> <<JsonDumps(res, 0)>>]

\* if not actions, for an answer of n actions
NoActions(n) == n = 0

\* The actions the model's answers are made of.
MainActionSet ==
    { Act(Str(T_LIST), Absent, Absent, Absent),
      Act(Str(T_RUN), Absent, Absent,
          Str(<<WS, "python engine/backtest.py", " strategies/example_ma_crossover.py">>)) }

\* main has read the prompt and built the history; the loop is about to
\* start.  The engine file exists and ALLOW_MODIFY_ENGINE is as in the source.
InitMain ==
    /\ InitExec
    /\ ENGINE \in DOMAIN files
    /\ allowModify
    /\ InitPathIdle
    /\ pc = "call_agent"
    /\ answer = -1
    /\ step = 1
    /\ messages = <<[role |-> "system", content |-> prompt_sistema]>>
    /\ user_content = initial_user_message
    /\ stepLogs = <<>>

\* The user message is appended and call_agent returns an answer of n
\* actions: none ends the loop, otherwise execute_actions is called.
MainCallAgent(n) ==
    /\ pc = "call_agent"
    /\ messages' = Append(messages, UserMessage(user_content))
    /\ answer' = n
    /\ IF NoActions(n)
       THEN /\ pc' = "done"
            /\ UNCHANGED <<fsVars, now, cfgVars, ctl, call, execVars, outcome, exc, guardVars,
                           histVars>>
       ELSE /\ pc' = "executing"
            /\ StartBatch(n)
    /\ UNCHANGED <<step, user_content, stepLogs, pathVars>>

\* The user message is appended and call_agent raises: the API call fails,
\* or the answer is empty, not JSON, or without an "actions" list.
MainCallAgentRaises ==
    /\ pc = "call_agent"
    /\ messages' = Append(messages, UserMessage(user_content))
    /\ pc' = "raised"
    /\ UNCHANGED <<fsVars, now, cfgVars, ctl, call, execVars, outcome, exc, guardVars, histVars,
                   answer, step, user_content, stepLogs, pathVars>>

\* execute_actions runs the batch.
InBatch == pc = "executing" /\ UNCHANGED <<pathVars, mainVars>>

MainExecStep ==
    \/ \E a \in MainActionSet :
         \/ InBatch /\ DoListDir(a)
         \/ InBatch /\ DoRunCommand(a)
    \/ InBatch /\ Return

\* execute_actions raised: nothing in main catches it.
MainRaise ==
    /\ pc = "executing"
    /\ ctl = "idle"
    /\ outcome = "raised"
    /\ pc' = "raised"
    /\ UNCHANGED <<fsVars, now, cfgVars, ctl, call, execVars, outcome, exc, guardVars, histVars,
                   answer, step, messages, user_content, stepLogs, pathVars>>

\* execute_actions returned: logs/ is created and the step log is written.
MainWriteLog ==
    /\ pc = "executing"
    /\ ctl = "idle"
    /\ outcome = "returned"
    /\ IF MakedirsExc(files, <<"logs">>) # ""
       THEN /\ pc' = "raised"
            /\ UNCHANGED <<dirs, stepLogs>>
       ELSE /\ pc' = "append"
            /\ dirs' = MakedirsDirs(dirs, <<"logs">>)
            /\ stepLogs' = WriteTo(stepLogs, StepLogPath(step), StepLog(step, actions, results))
    /\ UNCHANGED <<files, now, cfgVars, ctl, call, execVars, outcome, exc, guardVars, histVars,
                   answer, step, messages, user_content, pathVars>>

\* The assistant message is appended, the next user_content is built, and
\* the for loop goes to its next iteration or is exhausted.
MainAppend ==
    /\ pc = "append"
    /\ messages' = Append(messages, AssistantMessage(actions, results))
    /\ user_content' = Feedback(results)
    /\ IF step < MAX_STEPS
       THEN step' = step + 1 /\ pc' = "call_agent"
       ELSE pc' = "done" /\ UNCHANGED step
    /\ UNCHANGED <<fsVars, now, cfgVars, ctl, call, execVars, outcome, exc, guardVars, histVars,
                   answer, stepLogs, pathVars>>

NextMain ==
    \/ \E n \in 0..MainBatch : MainCallAgent(n)
    \/ MainCallAgentRaises
    \/ MainExecStep
    \/ MainRaise
    \/ MainWriteLog
    \/ MainAppend

SpecMain == InitMain /\ [][NextMain]_vars

\* main is one thread running to its end: it always takes its next step.
SpecMainLive == SpecMain /\ WF_vars(NextMain)

\* ---------------------------------------------------- properties of main

\* The model calls made so far: one per user message.
Calls == Cardinality({i \in 1..Len(messages) : messages[i].role = "user"})

\* The batches that execute_actions returned from and that were logged.
Logged == Cardinality({i \in 1..Len(messages) : messages[i].role = "assistant"})
            + (IF pc = "append" THEN 1 ELSE 0)

\* The loop has ended, by break, by exhaustion or by an exception.
Terminated == pc \in {"done", "raised"}

\* A model call answered with an empty list ends the loop at once, and no
\* batch is executed.
EmptyAnswerStops ==
    (pc = "call_agent" /\ pc' # "raised" /\ answer' = 0) =>
        /\ pc' = "done"
        /\ UNCHANGED <<ctl, execVars, fsVars, stepLogs>>

\* C26: the conversation loop always terminates, makes at most MAX_STEPS
\* model calls, and stops at the first empty answer without executing a
\* batch in that step; once ended it makes no further call.
C26_LoopTerminates ==
    /\ <>Terminated
    /\ [](Calls <= MAX_STEPS)
    /\ [][EmptyAnswerStops]_vars
    /\ [][Terminated => UNCHANGED vars]_vars

C26_Witness ==
    /\ pc = "done"
    /\ answer = 0
    /\ Calls = MAX_STEPS

RecordsAre(n) == DOMAIN stepLogs = {StepLogPath(k) : k \in 1..n}

C28_BatchBeforeContext ==
    [][/\ (messages' # messages) =>
            \/ /\ pc = "call_agent"
               /\ ctl = "idle"
               /\ messages' = Append(messages, [role |-> "user", content |-> user_content])
               /\ step > 1 => user_content.fed = <<JsonDumps(results, 0)>>
            \/ /\ pc = "append"
               /\ ctl = "idle"
               /\ outcome = "returned"
               /\ Len(results) = blen
               /\ StepLogPath(step) \in DOMAIN stepLogs
               /\ Len(messages') = Len(messages) + 1
               /\ messages'[Len(messages')].content.fed =
                     <<JsonDumps([actions |-> actions, results |-> results], 0)>>
       /\ (user_content' # user_content) =>
            /\ pc = "append"
            /\ user_content'.fed = <<JsonDumps(results, 0)>>]_vars

C28_Witness ==
    /\ Len(messages) >= 4
    /\ messages[4].role = "user"
    /\ messages[4].content.fed[1].dumps = messages[3].content.fed[1].dumps.results
    /\ Len(messages[4].content.fed[1].dumps) = 1

\* History m is one system message, then user and assistant in turn.
HistoryOK(m) ==
    /\ Len(m) >= 1
    /\ m[1].role = "system"
    /\ \A i \in 2..Len(m) : m[i].role = (IF i % 2 = 0 THEN "user" ELSE "assistant")

\* C29: at every model call the history is one system message followed by
\* user and assistant messages in strict alternation, ending in a user
\* message; a step that executes a batch adds exactly one user and one
\* assistant message; no message is ever removed or reordered.
C29_HistoryAlternates ==
    [][/\ IsPrefix(messages, messages')
       /\ Len(messages') <= Len(messages) + 1
       /\ HistoryOK(messages')
       /\ (pc = "call_agent") =>
             /\ Len(messages') = 2 * step
             /\ messages'[Len(messages')].role = "user"
       /\ (pc = "append") => Len(messages') = 2 * step + 1]_vars

C29_Witness ==
    /\ pc = "done"
    /\ Len(messages) = 2 * MAX_STEPS + 1
    /\ messages[Len(messages)].role = "assistant"

====
